---- MODULE Spec2Model ----
(***************************************************************************)
(* Point-of-sale backend (backend/pos): sales transactions, their items,   *)
(* inventory movements, carts and checkout, as a state machine over the    *)
(* relational store.  Money is counted in the smallest currency unit.      *)
(* A request is served by a worker; a worker's position in its handler is  *)
(* req[w].pc and the handler's local variables are the other fields of     *)
(* req[w].  Rows written inside transaction.atomic are held in the         *)
(* worker's write set (hdr, its, mv) until the block commits.              *)
(***************************************************************************)
EXTENDS Integers, Sequences, FiniteSets, TLC

(* ---------- bounds of the model ---------- *)
MaxTxn == 2          \* transaction primary keys handed out
MaxDay == 2          \* calendar days
MaxQty == 2          \* largest quantity in a request
InitStock == 2       \* stock of every product in the initial state
MaxItem == 3         \* cart item primary keys handed out
MaxUser == 3         \* rows of the users table
MaxAudit == 2        \* rows of the audit log

(* ---------- program constants ---------- *)
PadWidth == 4        \* f'{new_number:04d}'

\* catalog price of every product in the initial state
UnitPrice == 2

\* cost price of every product in the initial state
UnitCost == 1

Products == {1, 2}
Users == {1, 2}
Cashiers == {1}
Reasons == {"damaged"}

VARIABLES today, stock, price, cost, txns, titems, movements, nextId, carts,
          cartItems, nextItem, users, audit, req

vars == <<today, stock, price, cost, txns, titems, movements, nextId, carts,
          cartItems, nextItem, users, audit, req>>
accounts == <<users, audit>>
db == <<stock, txns, titems, movements>>
cartdb == <<carts, cartItems, nextItem>>

(* ---------- sequences and sums ---------- *)
Min(a, b) == IF a < b THEN a ELSE b

RECURSIVE SumSeq(_)
SumSeq(s) == IF s = <<>> THEN 0 ELSE Head(s) + SumSeq(Tail(s))

RECURSIVE SumSet(_, _)
\* sum of f[x] over the finite set S
SumSet(S, f) ==
  IF S = {} THEN 0
  ELSE LET x == CHOOSE y \in S : TRUE IN f[x] + SumSet(S \ {x}, f)

(* ---------- transaction numbers: TXN-<date>-<digits> ---------- *)
RECURSIVE Digits(_)
\* decimal digits of a natural number, most significant first
Digits(n) == IF n < 10 THEN <<n>> ELSE Digits(n \div 10) \o <<n % 10>>

RECURSIVE Zeros(_)
Zeros(k) == IF k <= 0 THEN <<>> ELSE <<0>> \o Zeros(k - 1)

\* f'{n:04d}': left-padded with zeros to PadWidth, longer numbers kept whole
Format04d(n) == Zeros(PadWidth - Len(Digits(n))) \o Digits(n)

RECURSIVE ParseInt(_)
\* int(text) of a digit string
ParseInt(d) ==
  IF d = <<>> THEN 0 ELSE 10 * ParseInt(SubSeq(d, 1, Len(d) - 1)) + d[Len(d)]

\* string order of two digit strings (the order ORDER BY uses)
StrLess(a, b) ==
  \E k \in 1..(Min(Len(a), Len(b)) + 1) :
     /\ \A j \in 1..(k - 1) : a[j] = b[j]
     /\ \/ k = Len(a) + 1 /\ k <= Len(b)
        \/ k <= Len(a) /\ k <= Len(b) /\ a[k] < b[k]

NoNumber == [date |-> 0, seq |-> <<>>]

\* the scan without the filter on today's prefix
GenerateNumberAnyDay(visible, date) ==
  LET last == CHOOSE t \in visible :
                 \A u \in visible :
                    ~StrLess(t.transaction_number.seq, u.transaction_number.seq)
      new_number == IF visible = {} THEN 1
                    ELSE ParseInt(last.transaction_number.seq) + 1
  IN [date |-> date, seq |-> Format04d(new_number)]

\* SalesTransaction.save: the number for a new row, from the rows visible
GenerateNumber(visible, date) ==
  LET sameDay == {t \in visible : t.transaction_number.date = date}
      last == CHOOSE t \in sameDay :
                 \A u \in sameDay :
                    ~StrLess(t.transaction_number.seq, u.transaction_number.seq)
      new_number == IF sameDay = {} THEN 1
                    ELSE ParseInt(last.transaction_number.seq) + 1
  IN [date |-> date, seq |-> Format04d(new_number)]

\* the column without unique=True
UniqueViolationNever(rows, number) == FALSE

\* unique=True on transaction_number
UniqueViolation(rows, number) ==
  \E t \in rows : t.transaction_number = number

(* ---------- validation (serializers) ---------- *)
\* TransactionItemCreateSerializer.validate_quantity
ValidQuantity(value) == ~(value <= 0)

\* the stock test left out
StockAvailableAlways(stk, line) == TRUE

\* TransactionItemCreateSerializer.validate
StockAvailable(stk, line) == ~(stk[line.product] < line.quantity)

LineAmount(line) == (line.unit_price * line.quantity) - line.discount

\* SalesTransactionCreateSerializer.validate: subtotal and total
CalcSubtotal(items) == SumSeq([k \in 1..Len(items) |-> LineAmount(items[k])])

\* the total with the tax left out
CalcTotalNoTax(items, tax, discount) == CalcSubtotal(items) - discount

CalcTotal(items, tax, discount) == CalcSubtotal(items) + tax - discount

\* the comparison turned round
PaymentSufficientInverted(amount_paid, total) == ~(amount_paid > total)

PaymentSufficient(amount_paid, total) == ~(amount_paid < total)

\* items validated with many=True forgotten: only the first is looked at
ValidationErrorFirstItem(stk, items, amount_paid, tax, discount) ==
  IF Len(items) = 0 THEN "VALIDATION"
  ELSE IF ~ValidQuantity(items[1].quantity) THEN "VALIDATION"
  ELSE IF ~StockAvailable(stk, items[1]) THEN "INSUFFICIENT_STOCK"
  ELSE IF ~PaymentSufficient(amount_paid, CalcTotal(items, tax, discount))
       THEN "INSUFFICIENT_PAYMENT"
  ELSE "none"

\* is_valid(): field and nested errors are raised before the object-level
\* validate() runs
ValidationError(stk, items, amount_paid, tax, discount) ==
  IF Len(items) = 0 THEN "VALIDATION"
  ELSE IF \E k \in 1..Len(items) : ~ValidQuantity(items[k].quantity)
       THEN "VALIDATION"
  ELSE IF \E k \in 1..Len(items) : ~StockAvailable(stk, items[k])
       THEN "INSUFFICIENT_STOCK"
  ELSE IF ~PaymentSufficient(amount_paid, CalcTotal(items, tax, discount))
       THEN "INSUFFICIENT_PAYMENT"
  ELSE "none"

(* ---------- inventory (inventory.models) ---------- *)
RECURSIVE ApplyMovements(_, _)
\* effect of a run of movements on the stock levels
ApplyMovements(stk, mv) ==
  IF mv = <<>> THEN stk
  ELSE LET m == Head(mv)
           d == IF m.movement_type = "SALE" THEN 0 - m.quantity ELSE m.quantity
       IN ApplyMovements([stk EXCEPT ![m.product] = @ + d], Tail(mv))

(* ---------- workers ---------- *)
Idle == [pc |-> "idle", op |-> "none", user |-> 0, items |-> <<>>,
         amount_paid |-> 0, tax |-> 0, discount |-> 0,
         subtotal |-> 0, total |-> 0, num |-> NoNumber, tid |-> 0, i |-> 0,
         hdr |-> {}, its |-> {}, mv |-> <<>>, cart |-> 0,
         product |-> 0, quantity |-> 0, row |-> <<>>, product_price |-> 0,
         reason |-> "", resp |-> "none"]

\* a finished request: the locals are dropped, the response is kept
Finished(op, response) == [Idle EXCEPT !.op = op, !.resp = response]

(* ---------- initial states ---------- *)
InitDb ==
  /\ today = 1
  /\ stock = [p \in Products |-> InitStock]
  /\ price = [p \in Products |-> UnitPrice]
  /\ cost = [p \in Products |-> UnitCost]
  /\ users = <<[role |-> "OWNER", is_active |-> TRUE],
               [role |-> "STAFF", is_active |-> TRUE]>>
  /\ audit = <<>>
  /\ txns = {}
  /\ titems = {}
  /\ movements = <<>>
  /\ nextId = 1
  /\ carts = {}
  /\ cartItems = <<>>
  /\ nextItem = 1

Init == InitDb /\ req = [w \in {1} |-> Idle]

InitConc == InitDb /\ req = [w \in {1, 2} |-> Idle]

(* ---------- the transaction engine ---------- *)
InTx == {"numbered", "items", "sale", "save"}

\* rows a worker's queries see: the committed rows and its own writes
Visible(w) == txns \cup req[w].hdr

\* SalesTransactionListCreateView.post: is_valid(), then serializer.save()
StartCreate(w, user, items, amount_paid, tax, discount) ==
  /\ req[w].pc = "idle"
  /\ nextId <= MaxTxn
  /\ LET err == ValidationError(stock, items, amount_paid, tax, discount) IN
       req' = [req EXCEPT ![w] =
                IF err # "none"
                THEN Finished("create", err)
                ELSE [Idle EXCEPT !.pc = "validated", !.op = "create",
                        !.user = user, !.items = items,
                        !.amount_paid = amount_paid, !.tax = tax,
                        !.discount = discount,
                        !.subtotal = CalcSubtotal(items),
                        !.total = CalcTotal(items, tax, discount)]]
  /\ UNCHANGED <<today, price, cost, accounts, db, nextId, cartdb>>

\* SalesTransaction.save, first half: scan the day's numbers
AssignNumber(w) ==
  /\ req[w].pc = "validated"
  /\ req' = [req EXCEPT ![w].pc = "numbered",
                        ![w].num = GenerateNumber(Visible(w), today)]
  /\ UNCHANGED <<today, price, cost, accounts, db, nextId, cartdb>>

\* create() without transaction.atomic: the rows written so far stay
AbortNoAtomic(w, exception) ==
  /\ txns' = txns \cup req[w].hdr
  /\ titems' = titems \cup req[w].its
  /\ movements' = movements \o req[w].mv
  /\ stock' = ApplyMovements(stock, req[w].mv)
  /\ req' = [req EXCEPT ![w] = Finished(req[w].op, exception)]
  /\ UNCHANGED <<today, price, cost, accounts, cartdb>>

\* the cart emptied on the way out, as in a "finally"
AbortClearsCart(w, exception) ==
  /\ req' = [req EXCEPT ![w] = Finished(req[w].op, exception)]
  /\ cartItems' = SelectSeq(cartItems, LAMBDA ci : ci.cart # req[w].cart)
  /\ UNCHANGED <<today, price, cost, accounts, db, carts, nextItem>>

\* transaction.atomic leaving on an exception: the block's writes are undone
Abort(w, exception) ==
  /\ req' = [req EXCEPT ![w] = Finished(req[w].op, exception)]
  /\ UNCHANGED <<today, price, cost, accounts, db, cartdb>>

NewHeader(r, id) ==
  [id |-> id, transaction_number |-> r.num, subtotal |-> r.subtotal,
   tax |-> r.tax, discount |-> r.discount, total_amount |-> r.total,
   amount_paid |-> r.amount_paid, change_amount |-> r.amount_paid - r.total,
   status |-> "PENDING", created_by |-> r.user, created_at |-> today,
   completed_at |-> 0, voided_by |-> 0, voided_at |-> 0, void_reason |-> ""]

\* SalesTransaction.save, second half: INSERT under the unique constraint.
\* An uncommitted row of another worker with the same number makes the
\* INSERT wait for that worker's commit or rollback.
InsertHeader(w) ==
  /\ req[w].pc = "numbered"
  /\ \A v \in DOMAIN req \ {w} : ~UniqueViolation(req[v].hdr, req[w].num)
  /\ IF UniqueViolation(txns, req[w].num)
     THEN Abort(w, "IntegrityError") /\ UNCHANGED nextId
     ELSE /\ req' = [req EXCEPT ![w].pc = "items", ![w].i = 1,
                                ![w].tid = nextId,
                                ![w].hdr = {NewHeader(req[w], nextId)}]
          /\ nextId' = nextId + 1
          /\ UNCHANGED <<today, price, cost, accounts, db, cartdb>>

\* TransactionItem.save
NewItem(tid, k, line) ==
  [transaction |-> tid, line |-> k, product |-> line.product,
   quantity |-> line.quantity, unit_price |-> line.unit_price,
   discount |-> line.discount,
   line_total |-> (line.unit_price * line.quantity) - line.discount]

\* create(): one TransactionItem per element of items_data
InsertItem(w) ==
  /\ req[w].pc = "items"
  /\ LET r == req[w]
         last == r.i = Len(r.items) IN
       req' = [req EXCEPT
                ![w].its = @ \cup {NewItem(r.tid, r.i, r.items[r.i])},
                ![w].i = IF last THEN 1 ELSE r.i + 1,
                ![w].pc = IF last THEN "sale" ELSE "items"]
  /\ UNCHANGED <<today, price, cost, accounts, db, nextId, cartdb>>

\* self.items.all(), ordering = ['id']
ItemsOf(rows, tid) ==
  LET mine == {it \in rows : it.transaction = tid} IN
  [k \in 1..Cardinality(mine) |-> CHOOSE it \in mine : it.line = k]

SaleMovement(t, it) ==
  [product |-> it.product, movement_type |-> "SALE", quantity |-> it.quantity,
   reference_number |-> [void |-> FALSE, number |-> t.transaction_number],
   created_by |-> t.created_by, transaction_id |-> t.id]

\* complete_transaction(): status COMPLETED in memory, one SALE movement
\* per item
EmitSale(w) ==
  /\ req[w].pc = "sale"
  /\ LET r == req[w]
         t == CHOOSE h \in r.hdr : TRUE
         its == ItemsOf(titems \cup r.its, r.tid)
         last == r.i = Len(its) IN
       req' = [req EXCEPT
                ![w].mv = Append(@, SaleMovement(t, its[r.i])),
                ![w].i = IF last THEN 0 ELSE r.i + 1,
                ![w].pc = IF last THEN "save" ELSE "sale"]
  /\ UNCHANGED <<today, price, cost, accounts, db, nextId, cartdb>>

\* complete_transaction(): self.save(), and the atomic block commits
CompleteSave(w) ==
  /\ req[w].pc = "save"
  /\ LET r == req[w]
         t == CHOOSE h \in r.hdr : TRUE
         saved == [t EXCEPT !.status = "COMPLETED", !.completed_at = today] IN
       /\ txns' = txns \cup {saved}
       /\ titems' = titems \cup r.its
       /\ movements' = movements \o r.mv
       /\ stock' = ApplyMovements(stock, r.mv)
       /\ req' = [req EXCEPT ![w] =
                    IF r.op = "checkout"
                    THEN [Idle EXCEPT !.pc = "clear", !.op = r.op,
                            !.user = r.user, !.num = r.num, !.tid = r.tid,
                            !.cart = r.cart]
                    ELSE Finished(r.op, "CREATED")]
  /\ UNCHANGED <<today, price, cost, accounts, nextId, cartdb>>

\* a storage failure inside the atomic block
Fail(w) ==
  /\ req[w].pc \in InTx
  /\ Abort(w, "StorageError")
  /\ UNCHANGED nextId

(* ---------- void ---------- *)
\* the movement of complete_transaction() copied without its type changed
ReturnMovementAsSale(t, it, user) ==
  [product |-> it.product, movement_type |-> "SALE",
   quantity |-> it.quantity,
   reference_number |-> [void |-> TRUE, number |-> t.transaction_number],
   created_by |-> user, transaction_id |-> t.id]

ReturnMovement(t, it, user) ==
  [product |-> it.product, movement_type |-> "RETURN",
   quantity |-> it.quantity,
   reference_number |-> [void |-> TRUE, number |-> t.transaction_number],
   created_by |-> user, transaction_id |-> t.id]

\* the view without its test of the status
AlreadyVoidNever(t) == FALSE

\* VoidTransactionView.post: "if transaction.status == 'VOID'" answers 400
AlreadyVoid(t) == t.status = "VOID"

\* void_transaction(): "if self.status == 'VOID': return"
VoidIsNoOp(t) == t.status = "VOID"

\* VoidTransactionView.post up to the call of void_transaction(): the row is
\* loaded into memory and its status is tested
VoidStart(w, user, pk, reason) ==
  /\ req[w].pc = "idle"
  /\ LET found == {t \in txns : t.id = pk}
         r0 == [Idle EXCEPT !.op = "void", !.user = user, !.tid = pk] IN
       req' = [req EXCEPT ![w] =
                IF found = {} THEN Finished("void", "NOT_FOUND")
                ELSE LET t == CHOOSE x \in found : TRUE IN
                     IF AlreadyVoid(t) THEN Finished("void", "ALREADY_VOID")
                     ELSE IF VoidIsNoOp(t) THEN Finished("void", "OK")
                     ELSE [r0 EXCEPT !.hdr = {t}, !.reason = reason, !.i = 1,
                             !.num = t.transaction_number,
                             !.pc = IF t.status = "COMPLETED"
                                    THEN "void_items" ELSE "void_save"]]
  /\ UNCHANGED <<today, price, cost, accounts, db, nextId, cartdb>>

\* void_transaction(): one RETURN movement per item of a COMPLETED
\* transaction, each written (and applied to the stock) as it is created
VoidReturn(w) ==
  /\ req[w].pc = "void_items"
  /\ LET r == req[w]
         t == CHOOSE h \in r.hdr : TRUE
         its == ItemsOf(titems, t.id)
         last == r.i >= Len(its)
         m == IF r.i <= Len(its)
              THEN <<ReturnMovement(t, its[r.i], r.user)>> ELSE <<>> IN
       /\ movements' = movements \o m
       /\ stock' = ApplyMovements(stock, m)
       /\ req' = [req EXCEPT ![w].i = IF last THEN 0 ELSE r.i + 1,
                             ![w].pc = IF last THEN "void_save"
                                       ELSE "void_items"]
  /\ UNCHANGED <<today, price, cost, accounts, txns, titems, nextId, cartdb>>

\* the wrong member of STATUS_CHOICES assigned
VoidedAsRefunded(t, user, reason, now) ==
  [t EXCEPT !.status = "REFUNDED", !.voided_by = user, !.voided_at = now,
            !.void_reason = reason]

\* a void that also hands the change back: change_amount reset with the status
VoidedClearsChange(t, user, reason, now) ==
  [t EXCEPT !.status = "VOID", !.voided_by = user, !.voided_at = now,
            !.void_reason = reason, !.change_amount = 0]

\* the in-memory row after the four assignments of void_transaction()
Voided(t, user, reason, now) ==
  [t EXCEPT !.status = "VOID", !.voided_by = user, !.voided_at = now,
            !.void_reason = reason]

\* void_transaction(): self.save() writes every column of the in-memory row
\* (the audit entry the view writes afterwards for sales_transactions is
\* read by no request of the model and is not kept)
VoidSave(w) ==
  /\ req[w].pc = "void_save"
  /\ LET r == req[w]
         t == CHOOSE h \in r.hdr : TRUE IN
       /\ txns' = {x \in txns : x.id # t.id}
                     \cup {Voided(t, r.user, r.reason, today)}
       /\ req' = [req EXCEPT ![w] = Finished("void", "OK")]
  /\ UNCHANGED <<today, price, cost, accounts, stock, titems, movements, nextId, cartdb>>

(* ---------- cart and checkout ---------- *)
ActiveCarts(user) == {c \in carts : c.user = user /\ c.is_active}

\* the rows of cart_items of one cart, ordering = ['added_at']
CartItemsOf(cid) == SelectSeq(cartItems, LAMBDA ci : ci.cart = cid)

\* a request answered with the cart it worked on
FinishedCart(op, response, cid) ==
  [Finished(op, response) EXCEPT !.cart = cid]

\* get_or_create(user=..., is_active=True), the SELECT: the handler's next
\* position and the cart it holds
CartLookup(r, user, found) ==
  LET have == ActiveCarts(user) IN
  IF Cardinality(have) > 1
  THEN Finished(r.op, "MultipleObjectsReturned")
  ELSE IF have = {} THEN [r EXCEPT !.pc = "cart_create"]
  ELSE [r EXCEPT !.pc = found, !.cart = (CHOOSE c \in have : TRUE).id]

\* CartView.get
GetCart(w, user) ==
  /\ req[w].pc = "idle"
  /\ LET r == CartLookup([Idle EXCEPT !.op = "get", !.user = user], user,
                         "found") IN
       req' = [req EXCEPT ![w] =
                IF r.pc = "found" THEN FinishedCart("get", "OK", r.cart)
                ELSE r]
  /\ UNCHANGED <<today, price, cost, accounts, db, nextId, cartdb>>

\* the field without min_value
AddQuantityValidAlways(quantity) == TRUE

\* AddToCartSerializer: quantity has min_value=1
AddQuantityValid(quantity) == quantity >= 1

\* the quantities already in carts counted as taken
AddValidReserving(product, quantity) ==
  ~(stock[product]
      - SumSeq([k \in 1..Len(cartItems) |->
                  IF cartItems[k].product = product
                  THEN cartItems[k].quantity ELSE 0])
    < quantity)

\* AddToCartSerializer.validate
AddValid(product, quantity) == ~(stock[product] < quantity)

\* AddToCartView.post up to the SELECT of get_or_create for the cart
AddToCart(w, user, product, quantity) ==
  /\ req[w].pc = "idle"
  /\ nextItem <= MaxItem
  /\ LET r0 == [Idle EXCEPT !.op = "add", !.user = user,
                            !.product = product, !.quantity = quantity] IN
       req' = [req EXCEPT ![w] =
                IF ~AddQuantityValid(quantity)
                THEN Finished("add", "VALIDATION")
                ELSE IF ~AddValid(product, quantity)
                THEN Finished("add", "INSUFFICIENT_STOCK")
                ELSE CartLookup(r0, user, "cart_item")]
  /\ UNCHANGED <<today, price, cost, accounts, db, nextId, cartdb>>

\* get_or_create, the INSERT: no active cart was found.  session_id carries
\* the time of the request, which differs between two requests.
CreateCart(w) ==
  /\ req[w].pc = "cart_create"
  /\ LET cid == Cardinality(carts) + 1 IN
       /\ carts' = carts \cup {[id |-> cid, user |-> req[w].user,
                                is_active |-> TRUE]}
       /\ req' = [req EXCEPT ![w] =
                    IF req[w].op = "get" THEN FinishedCart("get", "OK", cid)
                    ELSE [req[w] EXCEPT !.pc = "cart_item", !.cart = cid]]
  /\ UNCHANGED <<today, price, cost, accounts, db, nextId, cartItems, nextItem>>

\* CartItem.save: "if not self.unit_price" takes the price of self.product
CartItemSave(ci, product_price) ==
  IF ci.unit_price = 0 THEN [ci EXCEPT !.unit_price = product_price]
  ELSE ci

\* the quantity of the request stored in place of the sum
NewQuantityReplaces(old, quantity) == quantity

\* AddToCartView.post: new_quantity = cart_item.quantity + quantity
NewQuantity(old, quantity) == old + quantity

\* AddToCartView.post from the get_or_create of the cart item on
AddCartItem(w) ==
  /\ req[w].pc = "cart_item"
  /\ LET r == req[w]
         at == {k \in 1..Len(cartItems) :
                  cartItems[k].cart = r.cart
                  /\ cartItems[k].product = r.product} IN
       IF at = {}
       THEN /\ cartItems' = Append(cartItems,
                 CartItemSave([id |-> nextItem, cart |-> r.cart,
                               product |-> r.product, quantity |-> r.quantity,
                               unit_price |-> price[r.product]],
                              price[r.product]))
            /\ nextItem' = nextItem + 1
            /\ req' = [req EXCEPT ![w] = FinishedCart("add", "OK", r.cart)]
       ELSE LET k == CHOOSE j \in at : TRUE
                new_quantity == NewQuantity(cartItems[k].quantity, r.quantity)
            IN
            /\ nextItem' = nextItem
            /\ IF stock[r.product] < new_quantity
               THEN /\ cartItems' = cartItems
                    /\ req' = [req EXCEPT ![w] =
                         FinishedCart("add", "INSUFFICIENT_STOCK", r.cart)]
               ELSE /\ cartItems' = [cartItems EXCEPT ![k] =
                         CartItemSave([@ EXCEPT !.quantity = new_quantity],
                                      price[r.product])]
                    /\ req' = [req EXCEPT ![w] =
                         FinishedCart("add", "OK", r.cart)]
  /\ UNCHANGED <<today, price, cost, accounts, db, nextId, carts>>

\* the lookup by primary key alone, without the filters on the cart
OwnItemAnyCart(user, pk) == {k \in 1..Len(cartItems) : cartItems[k].id = pk}

\* get(pk=pk, cart__user=request.user, cart__is_active=True)
OwnItem(user, pk) ==
  {k \in 1..Len(cartItems) :
     /\ cartItems[k].id = pk
     /\ \E c \in ActiveCarts(user) : c.id = cartItems[k].cart}

\* the test of the stock left out of the update
UpdateErrorNoStock(product, quantity) ==
  IF quantity = 0 \/ quantity < 1 THEN "VALIDATION" ELSE "none"

\* UpdateCartItemView.patch: "not quantity or quantity < 1", then the stock
UpdateError(product, quantity) ==
  IF quantity = 0 \/ quantity < 1 THEN "VALIDATION"
  ELSE IF stock[product] < quantity THEN "INSUFFICIENT_STOCK"
  ELSE "none"

\* UpdateCartItemView.patch up to "cart_item.quantity = quantity": the item
\* and its product are loaded by one SELECT (select_related)
UpdateCartItem(w, user, pk, quantity) ==
  /\ req[w].pc = "idle"
  /\ LET at == OwnItem(user, pk) IN
       req' = [req EXCEPT ![w] =
         IF at = {} THEN Finished("update", "NOT_FOUND")
         ELSE LET ci == cartItems[CHOOSE j \in at : TRUE]
                  err == UpdateError(ci.product, quantity) IN
              IF err # "none" THEN FinishedCart("update", err, ci.cart)
              ELSE [Idle EXCEPT !.pc = "item_save", !.op = "update",
                      !.user = user, !.cart = ci.cart,
                      !.product = ci.product, !.quantity = quantity,
                      !.row = <<ci>>, !.product_price = price[ci.product]]]
  /\ UNCHANGED <<today, price, cost, accounts, db, nextId, cartdb>>

\* the row after save(): an UPDATE by primary key, an INSERT when no row
\* has that key any more
Saved(rows, ci) ==
  IF \E k \in 1..Len(rows) : rows[k].id = ci.id
  THEN [k \in 1..Len(rows) |-> IF rows[k].id = ci.id THEN ci ELSE rows[k]]
  ELSE Append(rows, ci)

\* UpdateCartItemView.patch: cart_item.quantity = quantity; cart_item.save()
SaveCartItem(w) ==
  /\ req[w].pc = "item_save"
  /\ LET r == req[w] IN
       /\ cartItems' = Saved(cartItems,
            CartItemSave([r.row[1] EXCEPT !.quantity = r.quantity],
                         r.product_price))
       /\ req' = [req EXCEPT ![w] = FinishedCart("update", "OK", r.cart)]
  /\ UNCHANGED <<today, price, cost, accounts, db, nextId, carts, nextItem>>

\* RemoveCartItemView.delete
RemoveCartItem(w, user, pk) ==
  /\ req[w].pc = "idle"
  /\ LET at == OwnItem(user, pk) IN
       IF at = {}
       THEN /\ req' = [req EXCEPT ![w] = Finished("remove", "NOT_FOUND")]
            /\ cartItems' = cartItems
       ELSE LET k == CHOOSE j \in at : TRUE IN
            /\ req' = [req EXCEPT ![w] =
                 FinishedCart("remove", "OK", cartItems[k].cart)]
            /\ cartItems' = SelectSeq(cartItems, LAMBDA ci : ci.id # pk)
  /\ UNCHANGED <<today, price, cost, accounts, db, nextId, carts, nextItem>>

\* clear() whose delete() was never called
ClearKeepsItems(cid) == cartItems

\* Cart.clear: self.cart_items.all().delete(); the table after it
Clear(cid) == SelectSeq(cartItems, LAMBDA ci : ci.cart # cid)

\* CartView.delete
ClearView(w, user) ==
  /\ req[w].pc = "idle"
  /\ LET have == ActiveCarts(user) IN
       IF have = {}
       THEN /\ req' = [req EXCEPT ![w] = Finished("clear", "NO_CART")]
            /\ UNCHANGED <<carts, cartItems>>
       ELSE IF Cardinality(have) > 1
       THEN /\ req' = [req EXCEPT ![w] =
                 Finished("clear", "MultipleObjectsReturned")]
            /\ UNCHANGED <<carts, cartItems>>
       ELSE LET cid == (CHOOSE c \in have : TRUE).id IN
            /\ req' = [req EXCEPT ![w] = FinishedCart("clear", "OK", cid)]
            /\ cartItems' = Clear(cid)
            /\ carts' = carts
  /\ UNCHANGED <<today, price, cost, accounts, db, nextId, nextItem>>

\* every line built with quantity 1 whatever the cart says
CartLinesOneEach(cid) ==
  LET cis == CartItemsOf(cid) IN
  [k \in 1..Len(cis) |->
     [product |-> cis[k].product, quantity |-> 1,
      unit_price |-> cis[k].unit_price, discount |-> 0]]

\* CheckoutView.post: the items of the transaction, built from the cart
CartLines(cid) ==
  LET cis == CartItemsOf(cid) IN
  [k \in 1..Len(cis) |->
     [product |-> cis[k].product, quantity |-> cis[k].quantity,
      unit_price |-> cis[k].unit_price, discount |-> 0]]

\* the test of the cart's items left out
CartIsEmptyNever(cid) == FALSE

\* CheckoutView.post: "not cart.cart_items.exists()"
CartIsEmpty(cid) == ~(\E k \in 1..Len(cartItems) : cartItems[k].cart = cid)

\* CheckoutView.post up to serializer.save()
CheckoutStart(w, user, amount_paid, tax, discount) ==
  /\ req[w].pc = "idle"
  /\ nextId <= MaxTxn
  /\ LET have == ActiveCarts(user)
         r0 == [Idle EXCEPT !.op = "checkout", !.user = user] IN
       req' = [req EXCEPT ![w] =
         IF have = {} THEN Finished("checkout", "NOT_FOUND")
         ELSE IF Cardinality(have) > 1
              THEN Finished("checkout", "MultipleObjectsReturned")
         ELSE LET cid == (CHOOSE c \in have : TRUE).id
                  items == CartLines(cid)
                  err == ValidationError(stock, items, amount_paid, tax,
                                         discount) IN
              IF CartIsEmpty(cid) THEN Finished("checkout", "EMPTY_CART")
              ELSE IF err # "none" THEN Finished("checkout", err)
              ELSE [r0 EXCEPT !.pc = "validated", !.cart = cid,
                      !.items = items, !.amount_paid = amount_paid,
                      !.tax = tax, !.discount = discount,
                      !.subtotal = CalcSubtotal(items),
                      !.total = CalcTotal(items, tax, discount)]]
  /\ UNCHANGED <<today, price, cost, accounts, db, nextId, cartdb>>

\* CheckoutView.post: cart.clear()
ClearCart(w) ==
  /\ req[w].pc = "clear"
  /\ cartItems' = Clear(req[w].cart)
  /\ req' = [req EXCEPT ![w].pc = "deactivate"]
  /\ UNCHANGED <<today, price, cost, accounts, db, nextId, carts, nextItem>>

\* CheckoutView.post: cart.is_active = False; cart.save()
DeactivateCart(w) ==
  /\ req[w].pc = "deactivate"
  /\ carts' = {c \in carts : c.id # req[w].cart}
                 \cup {[id |-> req[w].cart, user |-> req[w].user,
                        is_active |-> FALSE]}
  /\ req' = [req EXCEPT ![w] =
               FinishedCart("checkout", "CREATED", req[w].cart)]
  /\ UNCHANGED <<today, price, cost, accounts, db, nextId, cartItems, nextItem>>

(* ---------- reports (pos/views.py, reports/views.py) ---------- *)
\* filter(status='COMPLETED', created_at within the window)
CompletedIn(rows, from, to) ==
  {t \in rows : /\ t.status = "COMPLETED"
                /\ t.created_at >= from /\ t.created_at <= to}

\* aggregate(total=Sum('total_amount'))['total'] or 0
SumTotal(S) == SumSet(S, [t \in S |-> t.total_amount])

\* TransactionItem.objects.filter(transaction__in=...).aggregate(
\* Sum('quantity'))
ItemsSold(items, S) ==
  LET mine == {it \in items : \E t \in S : t.id = it.transaction} IN
  SumSet(mine, [it \in mine |-> it.quantity])

\* SalesReportView.get: the totals of the window
SalesReport(rows, items, from, to) ==
  LET transactions == CompletedIn(rows, from, to) IN
  [total_sales |-> SumTotal(transactions),
   total_transactions |-> Cardinality(transactions),
   total_items_sold |-> ItemsSold(items, transactions)]

\* DailySalesView.get
DailySales(rows, now) ==
  LET transactions == CompletedIn(rows, now, now) IN
  [total_sales |-> SumTotal(transactions),
   total_transactions |-> Cardinality(transactions)]

\* DashboardOverviewView.get: today's metrics and the month's; the days of
\* the model lie in one month, which starts on day 1
DashboardOverview(rows, items, now) ==
  LET today_txns == CompletedIn(rows, now, now)
      month_txns == {t \in rows : t.status = "COMPLETED" /\ t.created_at >= 1}
  IN [today_sales |-> SumTotal(today_txns),
      today_transactions |-> Cardinality(today_txns),
      today_items_sold |-> ItemsSold(items, today_txns),
      month_sales |-> SumTotal(month_txns),
      month_transactions |-> Cardinality(month_txns)]

\* the profit taken from the cost price of the day of the sale, as if it had
\* been stored with the item
ProfitAtFirstCost(items, cst, tid) ==
  LET mine == {it \in items : it.transaction = tid} IN
  SumSet(mine, [it \in mine |-> (it.unit_price - UnitCost) * it.quantity])

\* SalesTransaction.profit: recomputed on every read from the items and the
\* products' cost prices as they are now
Profit(items, cst, tid) ==
  LET mine == {it \in items : it.transaction = tid} IN
  SumSet(mine,
         [it \in mine |-> (it.unit_price - cst[it.product]) * it.quantity])

\* SalesReportView.get: total_profit = sum(t.profit for t in transactions)
TotalProfit(rows, items, cst, from, to) ==
  LET transactions == CompletedIn(rows, from, to) IN
  SumSet(transactions, [t \in transactions |-> Profit(items, cst, t.id)])

\* the rows of sales_transactions LEFT OUTER JOIN transaction_items: one per
\* item, one with no item for a transaction without items
JoinedRows(S, items) ==
  {[t |-> x[1], quantity |-> x[2].quantity, line |-> x[2].line] :
     x \in {y \in S \X items : y[2].transaction = y[1].id}}
  \cup {[t |-> u, quantity |-> 0, line |-> 0] :
          u \in {v \in S : \A it \in items : it.transaction # v.id}}

\* StaffSalesView.get: the group of one staff member; Sum('total_amount'),
\* Count('id') and Sum('items__quantity') of one annotate() are all taken
\* over the joined rows
StaffSales(rows, items, from, to, staff) ==
  LET transactions == {t \in CompletedIn(rows, from, to) :
                         t.created_by = staff}
      joined == JoinedRows(transactions, items)
  IN [total_sales |-> SumSet(joined, [x \in joined |-> x.t.total_amount]),
      transaction_count |-> Cardinality(joined),
      items_sold |-> SumSet(joined, [x \in joined |-> x.quantity])]

(* ---------- accounts: owner-only requests ---------- *)
\* who sends a request: 0 for a request without credentials, else the
\* primary key of an active user, whose token it carries
Requesters == {0} \cup {i \in 1..Len(users) : users[i].is_active}

Roles == {"OWNER", "STAFF"}

\* permissions.IsAuthenticated
IsAuthenticated(who) == who # 0

\* the test of the role left out
IsOwnerAnyRole(who) == who # 0 /\ IsAuthenticated(who)

\* IsOwner.has_permission
IsOwner(who) ==
  who # 0 /\ IsAuthenticated(who) /\ users[who].role = "OWNER"

\* permission_classes = [IsAuthenticated, IsOwner], checked in this order
\* before the handler runs: 401 without credentials, 403 without the role
Denied(who) ==
  IF ~IsAuthenticated(who) THEN "401"
  ELSE IF ~IsOwner(who) THEN "403"
  ELSE "none"

\* a finished request and who sent it
FinishedAs(op, response, who) == [Finished(op, response) EXCEPT !.user = who]

\* create_audit_log(user=..., action=..., table_name='users', record_id=...);
\* audit holds the entries written for the users table
AuditLog(who, action, record_id) ==
  [user |-> who, action |-> action, record_id |-> record_id]

pos == <<today, stock, price, cost, txns, titems, movements, nextId, carts,
         cartItems, nextItem>>

\* a request that reads and writes nothing: list users, list audit logs,
\* profit & loss report, staff performance report
OwnerRead(w, who, op) ==
  /\ req[w].pc = "idle"
  /\ req' = [req EXCEPT ![w] =
               IF Denied(who) # "none" THEN FinishedAs(op, Denied(who), who)
               ELSE FinishedAs(op, "200", who)]
  /\ UNCHANGED <<pos, accounts>>

\* UserListCreateView.get
ListUsers(w, who) == OwnerRead(w, who, "list_users")

\* AuditLogListView.get
ListAuditLogs(w, who) == OwnerRead(w, who, "audit_logs")

\* ProfitLossReportView.get
ProfitLossReport(w, who) == OwnerRead(w, who, "profit_loss")

\* StaffPerformanceView.get
StaffPerformance(w, who) == OwnerRead(w, who, "staff_performance")

\* UserListCreateView.post and perform_create
CreateUser(w, who, role) ==
  /\ req[w].pc = "idle"
  /\ Len(users) < MaxUser /\ Len(audit) < MaxAudit
  /\ IF Denied(who) # "none"
     THEN /\ req' = [req EXCEPT ![w] =
                       FinishedAs("create_user", Denied(who), who)]
          /\ UNCHANGED accounts
     ELSE /\ users' = Append(users, [role |-> role, is_active |-> TRUE])
          /\ audit' = Append(audit, AuditLog(who, "CREATE", Len(users) + 1))
          /\ req' = [req EXCEPT ![w] = FinishedAs("create_user", "201", who)]
  /\ UNCHANGED pos

\* UserDetailView.get
RetrieveUser(w, who, pk) ==
  /\ req[w].pc = "idle"
  /\ req' = [req EXCEPT ![w] =
               IF Denied(who) # "none"
               THEN FinishedAs("retrieve_user", Denied(who), who)
               ELSE IF pk \notin 1..Len(users)
               THEN FinishedAs("retrieve_user", "404", who)
               ELSE FinishedAs("retrieve_user", "200", who)]
  /\ UNCHANGED <<pos, accounts>>

\* UserDetailView.put and perform_update
UpdateUser(w, who, pk, role) ==
  /\ req[w].pc = "idle"
  /\ Len(audit) < MaxAudit
  /\ IF Denied(who) # "none"
     THEN /\ req' = [req EXCEPT ![w] =
                       FinishedAs("update_user", Denied(who), who)]
          /\ UNCHANGED accounts
     ELSE IF pk \notin 1..Len(users)
     THEN /\ req' = [req EXCEPT ![w] = FinishedAs("update_user", "404", who)]
          /\ UNCHANGED accounts
     ELSE /\ users' = [users EXCEPT ![pk].role = role]
          /\ audit' = Append(audit, AuditLog(who, "UPDATE", pk))
          /\ req' = [req EXCEPT ![w] = FinishedAs("update_user", "200", who)]
  /\ UNCHANGED pos

\* UserDetailView.delete and perform_destroy: a soft delete
DeactivateUser(w, who, pk) ==
  /\ req[w].pc = "idle"
  /\ Len(audit) < MaxAudit
  /\ IF Denied(who) # "none"
     THEN /\ req' = [req EXCEPT ![w] =
                       FinishedAs("deactivate_user", Denied(who), who)]
          /\ UNCHANGED accounts
     ELSE IF pk \notin 1..Len(users)
     THEN /\ req' = [req EXCEPT ![w] =
                       FinishedAs("deactivate_user", "404", who)]
          /\ UNCHANGED accounts
     ELSE /\ users' = [users EXCEPT ![pk].is_active = FALSE]
          /\ audit' = Append(audit, AuditLog(who, "DELETE", pk))
          /\ req' = [req EXCEPT ![w] =
                       FinishedAs("deactivate_user", "204", who)]
  /\ UNCHANGED pos

(* ---------- the catalog (inventory.models) ---------- *)
\* unit prices a product may be given: free, the initial price, a dearer one
Prices == {0, UnitPrice, UnitPrice + 1}

\* the catalog price of a product is edited
SetPrice(p, v) ==
  /\ price[p] # v
  /\ price' = [price EXCEPT ![p] = v]
  /\ UNCHANGED <<today, cost, accounts, db, nextId, cartdb, req>>

\* cost prices a product may be given: the initial one and a dearer one
Costs == {UnitCost, UnitCost + 1}

\* the cost price of a product is edited
SetCost(p, v) ==
  /\ cost[p] # v
  /\ cost' = [cost EXCEPT ![p] = v]
  /\ UNCHANGED <<today, price, accounts, db, nextId, cartdb, req>>

(* ---------- the clock ---------- *)
NextDay ==
  /\ today < MaxDay
  /\ today' = today + 1
  /\ UNCHANGED <<price, cost, accounts, db, nextId, cartdb, req>>

(* ---------- requests ---------- *)
Lines == [product : Products, quantity : {1, MaxQty},
          unit_price : {UnitPrice}, discount : {0, 1}]
FullLines == {x \in Lines : x.quantity = MaxQty /\ x.discount = 0}
ItemLists == {<<>>} \cup {<<a>> : a \in Lines}
               \cup {<<a, b>> : a \in FullLines, b \in FullLines}
Payments == {4, 9}
Tendered == {9}
Charges == {<<2, 1>>}

Workers == DOMAIN req

Start ==
  \/ \E w \in Workers, u \in Cashiers, items \in ItemLists, a \in Tendered,
        c \in Charges : StartCreate(w, u, items, a, c[1], c[2])
  \/ \E w \in Workers, u \in Users, pk \in 1..MaxTxn, r \in Reasons :
        VoidStart(w, u, pk, r)

Engine ==
  \/ \E w \in Workers : AssignNumber(w)
  \/ \E w \in Workers : InsertHeader(w)
  \/ \E w \in Workers : InsertItem(w)
  \/ \E w \in Workers : EmitSale(w)
  \/ \E w \in Workers : CompleteSave(w)
  \/ \E w \in Workers : Fail(w)
  \/ \E w \in Workers : VoidReturn(w)
  \/ \E w \in Workers : VoidSave(w)

Next == Start \/ Engine

Spec == Init /\ [][Next]_vars

\* single lines of product 1 without a line discount
RaceLists == {<<a>> : a \in {x \in Lines : x.product = 1 /\ x.discount = 0}}

(* the numbers of several days, one request at a time *)
NextNumbers ==
  \/ \E w \in Workers, u \in Cashiers, items \in RaceLists,
        a \in Tendered, c \in Charges :
        StartCreate(w, u, items, a, c[1], c[2])
  \/ \E w \in Workers, u \in Users, pk \in 1..MaxTxn, r \in Reasons :
        VoidStart(w, u, pk, r)
  \/ Engine
  \/ NextDay

SpecNumbers == Init /\ [][NextNumbers]_vars

(* carts and checkout, one request at a time *)

NextCheckout ==
  \/ \E w \in Workers, u \in Cashiers, p \in Products, q \in 1..MaxQty :
        AddToCart(w, u, p, q)
  \/ \E w \in Workers : CreateCart(w)
  \/ \E w \in Workers : AddCartItem(w)
  \/ \E w \in Workers, u \in Cashiers, a \in Payments, c \in Charges :
        CheckoutStart(w, u, a, c[1], c[2])
  \/ \E w \in Workers, u \in Cashiers, items \in RaceLists,
        a \in Payments, c \in Charges :
        StartCreate(w, u, items, a, c[1], c[2])
  \/ \E w \in Workers : AssignNumber(w)
  \/ \E w \in Workers : InsertHeader(w)
  \/ \E w \in Workers : InsertItem(w)
  \/ \E w \in Workers : EmitSale(w)
  \/ \E w \in Workers : CompleteSave(w)
  \/ \E w \in Workers : Fail(w)
  \/ \E w \in Workers : ClearCart(w)
  \/ \E w \in Workers : DeactivateCart(w)

SpecCheckout == Init /\ [][NextCheckout]_vars

(* two requests at a time on one product *)

NextConc ==
  \/ \E w \in Workers, u \in Cashiers, items \in RaceLists,
        a \in Payments, c \in Charges :
        StartCreate(w, u, items, a, c[1], c[2])
  \/ \E w \in Workers : AssignNumber(w)
  \/ \E w \in Workers : InsertHeader(w)
  \/ \E w \in Workers : InsertItem(w)
  \/ \E w \in Workers : EmitSale(w)
  \/ \E w \in Workers : CompleteSave(w)
  \/ \E w \in Workers : Fail(w)

SpecConc == InitConc /\ [][NextConc]_vars

\* the steps of serializer.save() and of what follows it in checkout
Creating ==
  \/ \E w \in Workers : AssignNumber(w)
  \/ \E w \in Workers : InsertHeader(w)
  \/ \E w \in Workers : InsertItem(w)
  \/ \E w \in Workers : EmitSale(w)
  \/ \E w \in Workers : CompleteSave(w)
  \/ \E w \in Workers : Fail(w)
  \/ \E w \in Workers : ClearCart(w)
  \/ \E w \in Workers : DeactivateCart(w)

\* quantities a cart request may carry: none, valid ones, one too many
AskedQty == 0..(MaxQty + 1)

(* every cart request of one user, one request at a time *)
NextCart ==
  \/ \E w \in Workers, u \in Cashiers : GetCart(w, u)
  \/ \E w \in Workers, u \in Cashiers, p \in Products, q \in AskedQty :
        AddToCart(w, u, p, q)
  \/ \E w \in Workers : CreateCart(w)
  \/ \E w \in Workers : AddCartItem(w)
  \/ \E w \in Workers, u \in Cashiers, pk \in 1..MaxItem, q \in AskedQty :
        UpdateCartItem(w, u, pk, q)
  \/ \E w \in Workers : SaveCartItem(w)
  \/ \E w \in Workers, u \in Cashiers, pk \in 1..MaxItem :
        RemoveCartItem(w, u, pk)
  \/ \E w \in Workers, u \in Cashiers : ClearView(w, u)
  \/ \E w \in Workers, u \in Cashiers, a \in Payments, c \in Charges :
        CheckoutStart(w, u, a, c[1], c[2])
  \/ Creating

SpecCart == Init /\ [][NextCart]_vars

(* the carts of two users on one product, one request at a time *)
NextTwoCarts ==
  \/ \E w \in Workers, u \in Users, q \in 1..MaxQty : AddToCart(w, u, 1, q)
  \/ \E w \in Workers : CreateCart(w)
  \/ \E w \in Workers : AddCartItem(w)
  \/ \E w \in Workers, u \in Users, a \in Tendered, c \in Charges :
        CheckoutStart(w, u, a, c[1], c[2])
  \/ Creating

SpecTwoCarts == Init /\ [][NextTwoCarts]_vars

(* one user's cart of one product while the catalog price changes *)
NextPrice ==
  \/ \E v \in Prices : SetPrice(1, v)
  \/ \E w \in Workers, u \in Cashiers, q \in 1..MaxQty : AddToCart(w, u, 1, q)
  \/ \E w \in Workers : CreateCart(w)
  \/ \E w \in Workers : AddCartItem(w)
  \/ \E w \in Workers, u \in Cashiers, pk \in 1..MaxItem, q \in 1..MaxQty :
        UpdateCartItem(w, u, pk, q)
  \/ \E w \in Workers : SaveCartItem(w)
  \/ \E w \in Workers, u \in Cashiers, a \in Tendered, c \in Charges :
        CheckoutStart(w, u, a, c[1], c[2])
  \/ Creating

SpecPrice == Init /\ [][NextPrice]_vars

(* the cart requests of one user, two at a time *)
NextCartConc ==
  \/ \E w \in Workers, u \in Cashiers : GetCart(w, u)
  \/ \E w \in Workers, u \in Cashiers, p \in Products, q \in 1..MaxQty :
        AddToCart(w, u, p, q)
  \/ \E w \in Workers : CreateCart(w)
  \/ \E w \in Workers : AddCartItem(w)
  \/ \E w \in Workers, u \in Cashiers : ClearView(w, u)

SpecCartConc == InitConc /\ [][NextCartConc]_vars

\* the primary keys of the cart items that exist
ItemIds == {cartItems[k].id : k \in 1..Len(cartItems)}

\* the worker that serves checkout and the worker that serves the requests
\* on cart items (which worker serves a request makes no difference)
CheckoutWorker == 1
ItemWorker == 2

(* the cart items of two users while a checkout of user 1 is under way: *)
(* update and remove name an item that exists                            *)
NextScoped ==
  \/ \E u \in Users : AddToCart(ItemWorker, u, 1, 1)
  \/ CreateCart(ItemWorker)
  \/ AddCartItem(ItemWorker)
  \/ \E u \in Users, pk \in ItemIds :
        UpdateCartItem(ItemWorker, u, pk, MaxQty)
  \/ SaveCartItem(ItemWorker)
  \/ \E u \in Users, pk \in ItemIds : RemoveCartItem(ItemWorker, u, pk)
  \/ \E a \in Tendered, c \in Charges :
        CheckoutStart(CheckoutWorker, 1, a, c[1], c[2])
  \/ Creating

SpecScoped == InitConc /\ [][NextScoped]_vars

\* a sale of one line and a sale of two lines, one unit of a product each
ReportLists ==
  LET One(p) == [product |-> p, quantity |-> 1, unit_price |-> UnitPrice,
                 discount |-> 0]
  IN {<<One(1)>>, <<One(1), One(2)>>}

(* sales of two staff members over several days, voids among them *)
NextReports ==
  \/ \E w \in Workers, u \in Users, items \in ReportLists, a \in Tendered,
        c \in Charges : StartCreate(w, u, items, a, c[1], c[2])
  \/ \E w \in Workers, u \in Cashiers, pk \in 1..MaxTxn, r \in Reasons :
        VoidStart(w, u, pk, r)
  \/ Engine
  \/ NextDay

SpecReports == Init /\ [][NextReports]_vars

(* sales, and edits of the cost prices once something was sold *)
NextProfit ==
  \/ \E w \in Workers, u \in Cashiers, items \in ReportLists, a \in Tendered,
        c \in Charges : StartCreate(w, u, items, a, c[1], c[2])
  \/ \E w \in Workers, u \in Cashiers, pk \in 1..MaxTxn, r \in Reasons :
        VoidStart(w, u, pk, r)
  \/ Engine
  \/ \E p \in Products, v \in Costs : txns # {} /\ SetCost(p, v)

SpecProfit == Init /\ [][NextProfit]_vars

(* the owner-only requests, sent by anyone *)
NextAccounts ==
  \/ \E w \in Workers, who \in Requesters : ListUsers(w, who)
  \/ \E w \in Workers, who \in Requesters, role \in Roles :
        CreateUser(w, who, role)
  \/ \E w \in Workers, who \in Requesters, pk \in 1..MaxUser :
        RetrieveUser(w, who, pk)
  \/ \E w \in Workers, who \in Requesters, pk \in 1..MaxUser, role \in Roles :
        UpdateUser(w, who, pk, role)
  \/ \E w \in Workers, who \in Requesters, pk \in 1..MaxUser :
        DeactivateUser(w, who, pk)
  \/ \E w \in Workers, who \in Requesters : ListAuditLogs(w, who)
  \/ \E w \in Workers, who \in Requesters : ProfitLossReport(w, who)
  \/ \E w \in Workers, who \in Requesters : StaffPerformance(w, who)

SpecAccounts == Init /\ [][NextAccounts]_vars

(* one user's cart of product 1, filled by one worker, and checkout *)
(* requests of that user on both workers                             *)
NextCheckoutRace ==
  \/ AddToCart(ItemWorker, 1, 1, 1)
  \/ CreateCart(ItemWorker)
  \/ AddCartItem(ItemWorker)
  \/ \E w \in Workers, a \in Tendered, c \in Charges :
        CheckoutStart(w, 1, a, c[1], c[2])
  \/ Creating

SpecCheckoutRace == InitConc /\ [][NextCheckoutRace]_vars

(* sales stored by one worker, void requests on both workers *)
NextVoidRace ==
  \/ \E u \in Cashiers, items \in ReportLists, a \in Tendered, c \in Charges :
        StartCreate(CheckoutWorker, u, items, a, c[1], c[2])
  \/ \E w \in Workers, u \in Cashiers, pk \in 1..MaxTxn, r \in Reasons :
        VoidStart(w, u, pk, r)
  \/ Engine

SpecVoidRace == InitConc /\ [][NextVoidRace]_vars

\* how many transactions the day already has when the run begins: few, and
\* around each power of ten up to the first number wider than the padding
Counts == {0, 1, 2, 9, 10, 99, 100, 999, 1000, 9998, 9999, 10000}

\* the k-th transaction of day 1, stored before the run begins (its items
\* and movements are left out)
Earlier(k) ==
  [id |-> 0 - k, transaction_number |-> [date |-> 1, seq |-> Format04d(k)],
   subtotal |-> UnitPrice, tax |-> 0, discount |-> 0,
   total_amount |-> UnitPrice, amount_paid |-> UnitPrice, change_amount |-> 0,
   status |-> "COMPLETED", created_by |-> 1, created_at |-> 1,
   completed_at |-> 1, voided_by |-> 0, voided_at |-> 0, void_reason |-> ""]

\* a day on which n transactions were created one after the other; of the
\* rows 1..n the last two are kept, which decide the next number as the whole
\* table would
InitSequence ==
  /\ today = 1
  /\ stock = [p \in Products |-> InitStock]
  /\ price = [p \in Products |-> UnitPrice]
  /\ cost = [p \in Products |-> UnitCost]
  /\ \E n \in Counts : txns = {Earlier(k) : k \in {n - 1, n} \cap (1..n)}
  /\ titems = {}
  /\ movements = <<>>
  /\ nextId = 1
  /\ carts = {}
  /\ cartItems = <<>>
  /\ nextItem = 1
  /\ users = <<[role |-> "OWNER", is_active |-> TRUE],
               [role |-> "STAFF", is_active |-> TRUE]>>
  /\ audit = <<>>
  /\ req = [w \in {1} |-> Idle]

(* creations, one at a time, on a day that already has transactions *)
SpecSequence == InitSequence /\ [][NextConc]_vars

\* one line of product 1, without a line discount or with one above the
\* price of the line
MoneyLists ==
  {<<[product |-> 1, quantity |-> 1, unit_price |-> UnitPrice,
      discount |-> d]>> : d \in {0, UnitPrice + 1}}

\* tax and discount of a request: none, and a discount above anything the
\* lines and the tax can add up to
MoneyCharges == {<<0, 0>>, <<1, 0>>, <<1, 9>>}

(* creations whose discounts exceed what they are taken from *)
NextMoney ==
  \/ \E w \in Workers, u \in Cashiers, items \in MoneyLists, a \in {0, 4},
        c \in MoneyCharges : StartCreate(w, u, items, a, c[1], c[2])
  \/ \E w \in Workers : AssignNumber(w)
  \/ \E w \in Workers : InsertHeader(w)
  \/ \E w \in Workers : InsertItem(w)
  \/ \E w \in Workers : EmitSale(w)
  \/ \E w \in Workers : CompleteSave(w)
  \/ \E w \in Workers : Fail(w)

SpecMoney == Init /\ [][NextMoney]_vars

(* ---------- what the claims speak of ---------- *)
ItemRows(t) == ItemsOf(titems, t.id)

\* the movements of one type written for a transaction, oldest first
MovesOf(mv, t, type) ==
  SelectSeq(mv, LAMBDA m : m.transaction_id = t.id /\ m.movement_type = type)

\* what one movement per item, in item order, looks like
PerItem(t, type, isVoid) ==
  [k \in 1..Len(ItemRows(t)) |->
     [product |-> ItemRows(t)[k].product, quantity |-> ItemRows(t)[k].quantity,
      movement_type |-> type,
      reference_number |-> [void |-> isVoid, number |-> t.transaction_number]]]

Brief(mv) ==
  [k \in 1..Len(mv) |->
     [product |-> mv[k].product, quantity |-> mv[k].quantity,
      movement_type |-> mv[k].movement_type,
      reference_number |-> mv[k].reference_number]]

\* quantity of product p on the items of transaction t
QtyOf(t, p) ==
  SumSeq([k \in 1..Len(ItemRows(t)) |->
            IF ItemRows(t)[k].product = p THEN ItemRows(t)[k].quantity ELSE 0])

RECURSIVE SumOver(_, _)
SumOver(S, p) ==
  IF S = {} THEN 0
  ELSE LET t == CHOOSE x \in S : TRUE IN QtyOf(t, p) + SumOver(S \ {t}, p)

VoidInFlight == \E w \in Workers : req[w].pc \in {"void_items", "void_save"}

\* C2: every stored transaction is whole: it is COMPLETED (or VOID later)
\* with a completion time, its items are lines 1..n with n >= 1, exactly one
\* SALE movement per item refers to its number, and no item or movement
\* belongs to a transaction that is not stored
AllOrNothing ==
  /\ \A t \in txns :
       /\ t.status \in {"COMPLETED", "VOID"}
       /\ t.completed_at # 0
       /\ Len(ItemRows(t)) >= 1
       /\ {it.line : it \in {x \in titems : x.transaction = t.id}}
            = 1..Len(ItemRows(t))
       /\ Brief(MovesOf(movements, t, "SALE")) = PerItem(t, "SALE", FALSE)
  /\ \A it \in titems : \E t \in txns : t.id = it.transaction
  /\ \A k \in 1..Len(movements) :
       \E t \in txns : t.id = movements[k].transaction_id

\* a creation failed after its header was written, and a two-item
\* transaction is stored
AllOrNothingWitness ==
  /\ req[1].resp = "StorageError"
  /\ nextId > Cardinality(txns) + 1
  /\ \E t \in txns : Len(ItemRows(t)) = 2

\* C3: for every COMPLETED transaction total = subtotal + tax - discount,
\* change = amount paid - total, and subtotal is the sum over its items of
\* unit price * quantity - line discount
TotalsConsistent ==
  \A t \in txns :
    t.status = "COMPLETED" =>
      /\ t.total_amount = t.subtotal + t.tax - t.discount
      /\ t.change_amount = t.amount_paid - t.total_amount
      /\ t.subtotal =
           SumSeq([k \in 1..Len(ItemRows(t)) |->
                     ItemRows(t)[k].unit_price * ItemRows(t)[k].quantity
                       - ItemRows(t)[k].discount])

\* a COMPLETED transaction with tax, discount, a discounted line and change,
\* beside a voided one
TotalsWitness ==
  /\ \E t \in txns :
       /\ t.status = "COMPLETED" /\ t.tax > 0 /\ t.discount > 0
       /\ t.change_amount > 0
       /\ \E it \in titems : it.transaction = t.id /\ it.discount > 0
                                 /\ it.quantity > 1
  /\ \E t \in txns : t.status = "VOID"

\* C5: a voided transaction has exactly one RETURN movement per item, for
\* the item's product and quantity, referring to VOID-<its number>, and
\* (no void being under way) the stock of every product is the initial
\* stock less the quantities of the transactions that are still COMPLETED
VoidRestores ==
  /\ \A t \in txns :
       t.status = "VOID" =>
         Brief(MovesOf(movements, t, "RETURN")) = PerItem(t, "RETURN", TRUE)
  /\ ~VoidInFlight =>
       /\ \A t \in txns : t.status = "COMPLETED" =>
                             MovesOf(movements, t, "RETURN") = <<>>
       /\ \A p \in Products :
            stock[p] = InitStock
                         - SumOver({t \in txns : t.status = "COMPLETED"}, p)

\* a two-item sale over both products was voided and the stock is back
VoidRestoresWitness ==
  /\ req[1].resp = "OK"
  /\ \E t \in txns : /\ t.status = "VOID"
                       /\ QtyOf(t, 1) = MaxQty /\ QtyOf(t, 2) = MaxQty
  /\ \A p \in Products : stock[p] = InitStock

\* C6: a void request on a VOID transaction is a no-op: the stored row (status,
\* voiding actor, time and reason included) and its RETURN movements stay as
\* they are, and "voided successfully" is never the answer to it
VoidIdempotent ==
  [][/\ \A t \in txns :
          t.status = "VOID" =>
            /\ t \in txns'
            /\ MovesOf(movements', t, "RETURN") = MovesOf(movements, t, "RETURN")
     /\ \A w \in Workers :
          ~(req[w].pc = "idle" /\ req'[w] # req[w] /\ req'[w].resp = "OK")
    ]_vars

\* a second void was answered "already void"
VoidIdempotentWitness ==
  /\ req[1].resp = "ALREADY_VOID"
  /\ \E t \in txns : t.status = "VOID" /\ t.voided_by = 2

\* every row a query can see: the stored ones and the ones being created
RowsInPlay ==
  txns \cup UNION {req[w].hdr : w \in {v \in Workers : req[v].op # "void"}}

StatusSteps ==
  {<<"PENDING", "PENDING">>, <<"PENDING", "COMPLETED">>,
   <<"COMPLETED", "COMPLETED">>, <<"COMPLETED", "VOID">>, <<"VOID", "VOID">>}

\* C7: a transaction's status only moves along PENDING -> COMPLETED -> VOID,
\* a stored transaction stays stored, and VOID is never left
StatusOneWay ==
  [][/\ \A t \in RowsInPlay : \A u \in RowsInPlay' :
          t.id = u.id => <<t.status, u.status>> \in StatusSteps
     /\ \A t \in txns : \E u \in txns' : u.id = t.id
    ]_vars

\* a transaction went all the way to VOID while another was being created
StatusOneWayWitness ==
  /\ \E t \in txns : t.status = "VOID"
  /\ \E t \in req[1].hdr : t.status = "PENDING" /\ req[1].op = "create"

SeqOf(t) == ParseInt(t.transaction_number.seq)
SameDay(t) ==
  {u \in txns : u.transaction_number.date = t.transaction_number.date}

\* C8: without concurrency the numbers of a day are 0001, 0002, ... in the
\* order of creation, no two transactions share a number, and a stored
\* transaction keeps its number (a void does not free it)
NumbersSequential ==
  /\ [](\A t \in txns :
          /\ Len(t.transaction_number.seq) = PadWidth
          /\ t.transaction_number.date \in 1..today
          /\ {SeqOf(u) : u \in SameDay(t)} = 1..Cardinality(SameDay(t))
          /\ \A u \in SameDay(t) : u.id < t.id => SeqOf(u) < SeqOf(t)
          /\ \A u \in txns :
               u.transaction_number = t.transaction_number => u = t)
  /\ [][\A t \in txns : \E u \in txns' :
          u.id = t.id /\ u.transaction_number = t.transaction_number]_vars

\* number 0001 of the day was voided and the next transaction got 0002
NumbersWitness ==
  \E t \in txns, u \in txns :
    /\ t.transaction_number.date = u.transaction_number.date
    /\ t.transaction_number.seq = <<0, 0, 0, 1>> /\ t.status = "VOID"
    /\ u.transaction_number.seq = <<0, 0, 0, 2>>
    /\ t.voided_at < u.completed_at

Answered(w, op, response) ==
  /\ req'[w] # req[w]
  /\ req'[w].pc = "idle" /\ req'[w].op = op /\ req'[w].resp = response

Accepted(w) == req[w].pc = "idle" /\ req'[w].pc = "validated"

LedgerUnchanged ==
  /\ txns' = txns /\ titems' = titems /\ movements' = movements
  /\ stock' = stock /\ nextId' = nextId

\* a line asks for more than the stock holds
Short(line) == line.quantity > stock[line.product]

\* C1: a checkout goes on to create a transaction only if no line of the
\* cart asks for more than the current stock; when a line does, the request
\* is refused and leaves transactions, items, movements and stock as they
\* were
CheckoutAtomic ==
  [][\A w \in Workers :
       /\ (Accepted(w) /\ req'[w].op = "checkout") =>
            /\ req'[w].items = CartLines(req'[w].cart)
            /\ \A k \in 1..Len(req'[w].items) : ~Short(req'[w].items[k])
       /\ Answered(w, "checkout", "INSUFFICIENT_STOCK") =>
            /\ LedgerUnchanged
            /\ \E c \in carts :
                 /\ c.is_active
                 /\ \E k \in 1..Len(CartLines(c.id)) : Short(CartLines(c.id)[k])
    ]_vars

\* a checkout was refused for its second line alone, after a sale
CheckoutAtomicWitness ==
  /\ req[1].op = "checkout" /\ req[1].resp = "INSUFFICIENT_STOCK"
  /\ txns # {}
  /\ \E c \in carts :
       /\ c.is_active /\ Len(CartLines(c.id)) = 2
       /\ ~Short(CartLines(c.id)[1]) /\ Short(CartLines(c.id)[2])

\* subtotal + tax - discount, worked out from the lines
TotalDue(items, tax, discount) ==
  SumSeq([k \in 1..Len(items) |->
            items[k].unit_price * items[k].quantity - items[k].discount])
    + tax - discount

ItemsPass(items) ==
  /\ Len(items) > 0
  /\ \A k \in 1..Len(items) : items[k].quantity >= 1 /\ ~Short(items[k])

\* C4: the total is computed once every line has passed the item checks; a
\* request that pays less than it is answered INSUFFICIENT_PAYMENT, is never
\* taken on, and leaves transactions, items, movements, stock and carts as
\* they were; so every stored transaction is paid in full
PaymentChecked ==
  /\ [](\A t \in txns : t.amount_paid >= t.total_amount)
  /\ [](\A items \in ItemLists \cup {CartLines(c.id) : c \in carts},
          a \in Payments, c \in Charges :
          (ItemsPass(items) /\ a < TotalDue(items, c[1], c[2])) =>
            ValidationError(stock, items, a, c[1], c[2])
              = "INSUFFICIENT_PAYMENT")
  /\ [][\A w \in Workers :
          /\ Accepted(w) =>
               req'[w].amount_paid >=
                 TotalDue(req'[w].items, req'[w].tax, req'[w].discount)
          /\ \A op \in {"create", "checkout"} :
               Answered(w, op, "INSUFFICIENT_PAYMENT") =>
                 LedgerUnchanged /\ carts' = carts /\ cartItems' = cartItems
       ]_vars

\* a checkout of a two-line cart that the stock covers was refused for its
\* payment
PaymentCheckedWitness ==
  /\ req[1].op = "checkout" /\ req[1].resp = "INSUFFICIENT_PAYMENT"
  /\ \E c \in carts :
       /\ c.is_active /\ Len(CartLines(c.id)) = 2
       /\ ItemsPass(CartLines(c.id))

\* quantity of product p on the lines of a request
Asked(items, p) ==
  SumSeq([k \in 1..Len(items) |->
            IF items[k].product = p THEN items[k].quantity ELSE 0])

\* C9: the stock is looked at when a request is validated and not again:
\* every line taken on is within the stock stored at that moment, and the
\* commit deducts the quantities from whatever the stock is by then
OversellRace ==
  [][\A w \in Workers :
       /\ Accepted(w) =>
            \A k \in 1..Len(req'[w].items) : ~Short(req'[w].items[k])
       /\ (req[w].pc = "save" /\ req'[w].pc # "save" /\ txns' # txns) =>
            \A p \in Products :
              stock'[p] = stock[p] - Asked(req[w].items, p)
    ]_vars

\* two transactions, each within the initial stock, are both COMPLETED and
\* together took more than there was
OversellWitness ==
  \E t \in txns, u \in txns, p \in Products :
    /\ t.id # u.id /\ t.status = "COMPLETED" /\ u.status = "COMPLETED"
    /\ QtyOf(t, p) <= InitStock /\ QtyOf(u, p) <= InitStock
    /\ stock[p] = InitStock - QtyOf(t, p) - QtyOf(u, p)
    /\ stock[p] < 0

\* C10: no two stored transactions share a number; a creation that derived a
\* number already stored ends with IntegrityError, is not tried again, and
\* leaves no row of its own
NumberRace ==
  /\ [](\A t \in txns, u \in txns :
          t.transaction_number = u.transaction_number => t = u)
  /\ [][\A w \in Workers :
          (req'[w] # req[w] /\ req'[w].resp = "IntegrityError") =>
            /\ req[w].pc = "numbered"
            /\ \E t \in txns : t.transaction_number = req[w].num
            /\ req'[w].pc = "idle"
            /\ req[w].hdr = {} /\ req[w].its = {} /\ req[w].mv = <<>>
            /\ LedgerUnchanged
       ]_vars

\* both workers derived the same number; one stored it, the other failed
NumberRaceWitness ==
  \E w \in Workers, v \in Workers :
    /\ req[w].resp = "IntegrityError" /\ req[v].resp = "CREATED"
    /\ Cardinality(txns) = 1 /\ Len(movements) = 1

\* C11: no user ever has two carts with is_active = TRUE, whatever the
\* interleaving of the cart requests, those of one user at the same time
\* included
OneActiveCart == \A u \in Users : Cardinality(ActiveCarts(u)) <= 1

\* quantity of product p in the rows of cart cid
CartQty(rows, cid, p) ==
  SumSeq([k \in 1..Len(rows) |->
            IF rows[k].cart = cid /\ rows[k].product = p
            THEN rows[k].quantity ELSE 0])

\* the rows of cart cid in a cart_items table
RowsOfCart(rows, cid) == SelectSeq(rows, LAMBDA ci : ci.cart = cid)

\* C12: the commit of a checkout stores a COMPLETED transaction with one
\* item per cart item (same product, same quantity) and one SALE movement
\* per item, and takes the cart's quantity of every product off the stock;
\* when the checkout is answered 201 the cart is inactive and has no items
CheckoutConverts ==
  [][\A w \in Workers :
       /\ (req[w].op = "checkout" /\ req[w].pc = "save"
             /\ req'[w].pc = "clear") =>
            LET cis == RowsOfCart(cartItems, req[w].cart)
                rows == ItemsOf(titems', req[w].tid)
                sold == SubSeq(movements', Len(movements) + 1,
                               Len(movements')) IN
              /\ \E t \in txns' : t.id = req[w].tid /\ t.status = "COMPLETED"
              /\ Len(rows) = Len(cis) /\ Len(sold) = Len(cis)
              /\ \A k \in 1..Len(cis) :
                   /\ rows[k].product = cis[k].product
                   /\ rows[k].quantity = cis[k].quantity
                   /\ sold[k].movement_type = "SALE"
                   /\ sold[k].transaction_id = req[w].tid
                   /\ sold[k].product = cis[k].product
                   /\ sold[k].quantity = cis[k].quantity
              /\ \A p \in Products :
                   stock'[p] = stock[p] - CartQty(cartItems, req[w].cart, p)
       /\ Answered(w, "checkout", "CREATED") =>
            /\ \E c \in carts' : c.id = req[w].cart /\ ~c.is_active
            /\ ~(\E c \in carts' : c.id = req[w].cart /\ c.is_active)
            /\ RowsOfCart(cartItems', req[w].cart) = <<>>
    ]_vars

\* a checkout of a cart of two products was answered 201
CheckoutConvertsWitness ==
  \E w \in Workers :
     /\ req[w].pc = "idle" /\ req[w].op = "checkout"
     /\ req[w].resp = "CREATED"
     /\ \E t \in txns : Len(ItemRows(t)) = 2 /\ t.status = "COMPLETED"
     /\ \E c \in carts : c.id = req[w].cart /\ ~c.is_active
     /\ \E p \in Products : stock[p] = 0

\* a checkout that has not yet committed its transaction
CheckoutPending(r) ==
  r.op = "checkout" /\ r.pc \in {"validated"} \cup InTx

\* the lines a cart's rows stand for
LinesOf(rows) ==
  [k \in 1..Len(rows) |->
     [product |-> rows[k].product, quantity |-> rows[k].quantity,
      unit_price |-> rows[k].unit_price, discount |-> 0]]

\* C13: a checkout that is refused, or that fails inside the creation of
\* the transaction, changes neither carts nor cart items; when it fails
\* after the cart was read, the cart is still active and still holds the
\* items, quantities and unit prices the request read
CheckoutFailureKeepsCart ==
  [][\A w \in Workers :
       /\ (\E e \in {"NOT_FOUND", "EMPTY_CART", "VALIDATION",
                     "INSUFFICIENT_STOCK", "INSUFFICIENT_PAYMENT",
                     "IntegrityError", "StorageError",
                     "MultipleObjectsReturned"} :
              Answered(w, "checkout", e)) =>
            /\ carts' = carts /\ cartItems' = cartItems
            /\ txns' = txns
       /\ (CheckoutPending(req[w]) /\ req'[w].pc = "idle") =>
            /\ \E c \in carts' : c.id = req[w].cart /\ c.is_active
            /\ LinesOf(RowsOfCart(cartItems', req[w].cart)) = req[w].items
       /\ (CheckoutPending(req[w]) /\ req'[w] # req[w]) =>
            carts' = carts /\ cartItems' = cartItems
    ]_vars

\* the creation of a checkout's transaction failed and the cart still holds
\* its two items
CheckoutFailureWitness ==
  \E w \in Workers :
     /\ req[w].pc = "idle" /\ req[w].op = "checkout"
     /\ req[w].resp = "StorageError"
     /\ \E c \in carts : c.is_active /\ Len(CartItemsOf(c.id)) = 2

\* the quantities of every cart and product but one are as they were
OtherQuantitiesKept(cid, product) ==
  \A c \in carts', p \in Products :
     (c.id # cid \/ p # product) =>
        CartQty(cartItems', c.id, p) = CartQty(cartItems, c.id, p)

\* C14: an accepted addItem leaves exactly one item of the product in the
\* cart, with the old quantity (0 when the product was not in the cart)
\* plus the quantity asked, and that sum is within the stock; a request is
\* taken on only with a quantity from 1 to the stock; the request whose sum
\* exceeds the stock is answered INSUFFICIENT_STOCK; every rejected request
\* leaves carts and cart items as they were
AddItemSums ==
  [][\A w \in Workers :
       /\ (req[w].pc = "cart_item" /\ req'[w].pc = "idle") =>
            LET r == req[w]
                old == CartQty(cartItems, r.cart, r.product)
                mine == SelectSeq(cartItems',
                          LAMBDA ci : ci.cart = r.cart
                                      /\ ci.product = r.product) IN
              /\ req'[w].resp \in {"OK", "INSUFFICIENT_STOCK"}
              /\ (req'[w].resp = "INSUFFICIENT_STOCK")
                    <=> (old + r.quantity > stock[r.product])
              /\ (req'[w].resp = "OK") =>
                    /\ Len(mine) = 1
                    /\ mine[1].quantity = old + r.quantity
                    /\ Len(cartItems') =
                         Len(cartItems) + (IF old = 0 THEN 1 ELSE 0)
                    /\ OtherQuantitiesKept(r.cart, r.product)
       /\ (req[w].pc = "idle" /\ req'[w].op = "add"
             /\ req'[w].pc \in {"cart_create", "cart_item"}) =>
            /\ req'[w].quantity >= 1
            /\ req'[w].quantity <= stock[req'[w].product]
       /\ (\E e \in {"VALIDATION", "INSUFFICIENT_STOCK"} :
              Answered(w, "add", e)) =>
            carts' = carts /\ cartItems' = cartItems
    ]_vars

\* an addItem for a product already in the cart was refused because the sum
\* exceeds the stock, and the item is still there
AddItemWitness ==
  \E w \in Workers :
     /\ req[w].pc = "idle" /\ req[w].op = "add"
     /\ req[w].resp = "INSUFFICIENT_STOCK" /\ req[w].cart # 0
     /\ \E k \in 1..Len(cartItems) :
          cartItems[k].cart = req[w].cart /\ cartItems[k].quantity = MaxQty

\* C15: updateItem is taken on only with a quantity from 1 to the stock of
\* the item's product; a refused update leaves the cart items as they were;
\* the update taken on stores the quantity asked as the item's quantity (not
\* a sum) and changes the quantity of no other item
UpdateExact ==
  [][\A w \in Workers :
       /\ (req[w].pc = "idle" /\ req'[w].pc = "item_save") =>
            /\ req'[w].quantity >= 1
            /\ req'[w].quantity <= stock[req'[w].product]
       /\ (\E e \in {"NOT_FOUND", "VALIDATION", "INSUFFICIENT_STOCK"} :
              Answered(w, "update", e)) =>
            cartItems' = cartItems
       /\ (req[w].pc = "item_save" /\ req'[w].pc = "idle") =>
            LET r == req[w] IN
              /\ req'[w].resp = "OK"
              /\ Len(cartItems') = Len(cartItems)
              /\ \A k \in 1..Len(cartItems) :
                   /\ cartItems'[k].id = cartItems[k].id
                   /\ cartItems'[k].quantity =
                        IF cartItems[k].id = r.row[1].id THEN r.quantity
                        ELSE cartItems[k].quantity
              /\ \E k \in 1..Len(cartItems) : cartItems[k].id = r.row[1].id
    ]_vars

\* an update asking for more than the stock was refused and the item still
\* has a quantity within the stock
UpdateExactWitness ==
  \E w \in Workers :
     /\ req[w].pc = "idle" /\ req[w].op = "update"
     /\ req[w].resp = "INSUFFICIENT_STOCK"
     /\ \E k \in 1..Len(cartItems) :
          /\ cartItems[k].cart = req[w].cart
          /\ cartItems[k].quantity <= stock[cartItems[k].product]

\* C16: adding to a cart takes nothing off the stock, and an addItem whose
\* quantity is within the stock is never refused at the door because of what
\* other carts hold; a checkout is taken on only when every line is within
\* the stock of that moment, the one refused for stock creates nothing, and
\* so the stock never falls below zero
NoReservation ==
  /\ [](\A p \in Products : stock[p] >= 0)
  /\ [][\A w \in Workers :
          /\ (req'[w].op = "add" /\ req'[w] # req[w]) => stock' = stock
          /\ \A u \in Users, q \in 1..MaxQty :
               (AddToCart(w, u, 1, q) /\ q <= stock[1]) =>
                  req'[w].pc \in {"cart_create", "cart_item"}
          /\ (Accepted(w) /\ req'[w].op = "checkout") =>
               \A k \in 1..Len(req'[w].items) :
                  req'[w].items[k].quantity <= stock[req'[w].items[k].product]
          /\ Answered(w, "checkout", "INSUFFICIENT_STOCK") =>
               LedgerUnchanged
     ]_vars

\* two users' carts each held a quantity within the stock, their sum above
\* it; the first checkout went through and the second was refused for stock:
\* one transaction, the second cart still active with its quantity
NoReservationWitness ==
  \E w \in Workers, c \in carts, d \in carts :
     /\ req[w].pc = "idle" /\ req[w].op = "checkout"
     /\ req[w].resp = "INSUFFICIENT_STOCK"
     /\ c.user # d.user /\ ~c.is_active /\ d.is_active
     /\ Cardinality(txns) = 1
     /\ \E t \in txns : t.created_by = c.user /\ t.status = "COMPLETED"
     /\ CartQty(cartItems, d.id, 1) > stock[1]
     /\ CartQty(cartItems, d.id, 1) <= InitStock
     /\ stock[1] >= 0

\* C17: a cart item is created with the catalog price of that moment and
\* keeps that unit price for as long as it exists, whatever the catalog does
\* and however often its quantity is raised or replaced; the items of the
\* transaction a checkout commits carry the cart items' unit prices, and the
\* subtotal and total are computed from them
PriceSnapshotKept ==
  [][/\ \A j \in 1..Len(cartItems') :
          IF \E k \in 1..Len(cartItems) : cartItems[k].id = cartItems'[j].id
          THEN \A k \in 1..Len(cartItems) :
                 cartItems[k].id = cartItems'[j].id =>
                    cartItems'[j].unit_price = cartItems[k].unit_price
          ELSE cartItems'[j].unit_price = price[cartItems'[j].product]
     /\ \A w \in Workers :
          (req[w].op = "checkout" /\ req[w].pc = "save"
             /\ req'[w].pc = "clear") =>
            LET cis == RowsOfCart(cartItems, req[w].cart)
                rows == ItemsOf(titems', req[w].tid)
                t == CHOOSE x \in txns' : x.id = req[w].tid IN
              /\ Len(rows) = Len(cis)
              /\ \A k \in 1..Len(cis) :
                   rows[k].unit_price = cis[k].unit_price
              /\ t.subtotal =
                   SumSeq([k \in 1..Len(cis) |->
                             cis[k].unit_price * cis[k].quantity])
              /\ t.total_amount = t.subtotal + t.tax - t.discount
    ]_vars

\* C18: a checkout by a user whose active cart has no items is answered
\* EMPTY_CART; that answer leaves transactions, items, movements, stock,
\* carts and cart items as they were, with the cart still active; and no
\* checkout is taken on with an empty list of lines
EmptyCartRefused ==
  [][\A w \in Workers :
       /\ \A u \in Cashiers, a \in Payments, c \in Charges :
            (/\ CheckoutStart(w, u, a, c[1], c[2])
             /\ Cardinality(ActiveCarts(u)) = 1
             /\ \A x \in ActiveCarts(u) : CartItemsOf(x.id) = <<>>) =>
               req'[w] = Finished("checkout", "EMPTY_CART")
       /\ Answered(w, "checkout", "EMPTY_CART") =>
            /\ LedgerUnchanged
            /\ carts' = carts /\ cartItems' = cartItems
            /\ \E x \in carts' :
                 x.is_active /\ RowsOfCart(cartItems', x.id) = <<>>
       /\ (Accepted(w) /\ req'[w].op = "checkout") => Len(req'[w].items) > 0
    ]_vars

\* the checkout of a cart that had an item and lost it was answered
\* EMPTY_CART
EmptyCartWitness ==
  \E w \in Workers :
     /\ req[w].pc = "idle" /\ req[w].op = "checkout"
     /\ req[w].resp = "EMPTY_CART"
     /\ \E x \in carts : x.is_active /\ CartItemsOf(x.id) = <<>>
     /\ nextItem > 1

\* C19: a clear that found the user's active cart deletes the items of that
\* cart and no other row: the carts, that cart's is_active among them, the
\* transactions, items, movements, stock and prices are as they were; a clear
\* that found no cart changes nothing; and the GET that follows a clear
\* returns the cart that was cleared
ClearOnlyItems ==
  [][\A w \in Workers :
       /\ Answered(w, "clear", "OK") =>
            /\ cartItems' = SelectSeq(cartItems,
                              LAMBDA ci : ci.cart # req'[w].cart)
            /\ RowsOfCart(cartItems', req'[w].cart) = <<>>
            /\ \E x \in carts' : x.id = req'[w].cart /\ x.is_active
            /\ carts' = carts /\ LedgerUnchanged /\ price' = price
       /\ Answered(w, "clear", "NO_CART") =>
            /\ cartItems' = cartItems /\ carts' = carts
            /\ LedgerUnchanged /\ price' = price
       /\ (req[w].op = "clear" /\ req[w].resp = "OK"
             /\ req[w].pc = "idle" /\ req'[w].op = "get") =>
            /\ req'[w].pc = "idle" /\ req'[w].resp = "OK"
            /\ req'[w].cart = req[w].cart
            /\ carts' = carts
    ]_vars

\* a cart was cleared after two items had been added and a sale made: it is
\* active and empty, and the transaction is still there
ClearWitness ==
  \E w \in Workers :
     /\ req[w].pc = "idle" /\ req[w].op = "clear" /\ req[w].resp = "OK"
     /\ \E x \in carts : x.id = req[w].cart /\ x.is_active
     /\ CartItemsOf(req[w].cart) = <<>>
     /\ nextItem > 2
     /\ txns # {}

\* C20: whatever requests were served, no cart holds two items of one
\* product and every cart item has a quantity of at least 1
CartItemsWellFormed ==
  /\ \A j \in 1..Len(cartItems), k \in 1..Len(cartItems) :
       (cartItems[j].cart = cartItems[k].cart
          /\ cartItems[j].product = cartItems[k].product) => j = k
  /\ \A k \in 1..Len(cartItems) : cartItems[k].quantity >= 1

\* a cart holds an item of each product after three items were created, one
\* of them removed again
CartItemsWitness ==
  \E c \in carts :
     /\ c.is_active
     /\ Len(CartItemsOf(c.id)) = Cardinality(Products)
     /\ nextItem > Cardinality(Products) + 1

\* the columns of a transaction that a ledger entry keeps for good
Ledger(t) ==
  [id |-> t.id, transaction_number |-> t.transaction_number,
   subtotal |-> t.subtotal, tax |-> t.tax, discount |-> t.discount,
   total_amount |-> t.total_amount, amount_paid |-> t.amount_paid,
   change_amount |-> t.change_amount, created_by |-> t.created_by]

\* the columns void_transaction() assigns
VoidColumns(t) ==
  [status |-> t.status, voided_by |-> t.voided_by, voided_at |-> t.voided_at,
   void_reason |-> t.void_reason]

ItemSet(rows, tid) == {it \in rows : it.transaction = tid}

NotCallers(user, pk) ==
  \E k \in 1..Len(cartItems) :
     /\ cartItems[k].id = pk
     /\ \E c \in carts : /\ c.id = cartItems[k].cart
                          /\ (c.user # user \/ ~c.is_active)

\* C22: an update or a removal that names an item of another user's cart,
\* or of a cart that is no longer active, is answered NOT_FOUND and leaves
\* every cart item of every user as it was
CartItemsScoped ==
  [][\A w \in Workers, u \in Users, pk \in 1..MaxItem :
       NotCallers(u, pk) =>
         /\ UpdateCartItem(w, u, pk, MaxQty) =>
               Answered(w, "update", "NOT_FOUND") /\ cartItems' = cartItems
         /\ RemoveCartItem(w, u, pk) =>
               Answered(w, "remove", "NOT_FOUND") /\ cartItems' = cartItems
    ]_vars

\* an update or a removal was answered NOT_FOUND; the item it named is the
\* only one ever created and is still there, in a cart that checkout has
\* deactivated
CartItemsScopedWitness ==
  /\ nextItem = 2
  /\ \E k \in 1..Len(cartItems), c \in carts :
        c.id = cartItems[k].cart /\ ~c.is_active
  /\ req[ItemWorker].pc = "idle"
  /\ req[ItemWorker].op \in {"update", "remove"}
  /\ req[ItemWorker].resp = "NOT_FOUND"

Days == 1..MaxDay

\* the transactions whose status a step sets, as they are after the step
StatusSet == {t \in txns' : \A u \in txns : u.id = t.id => u.status # t.status}

\* +1 for a transaction that became COMPLETED, -1 for one that left it
Turn(t) ==
  IF t.status = "COMPLETED" THEN 1
  ELSE IF \E u \in txns : u.id = t.id /\ u.status = "COMPLETED" THEN 0 - 1
  ELSE 0

QtySold(t) ==
  LET mine == ItemSet(titems', t.id) IN SumSet(mine, [it \in mine |-> it.quantity])

\* the sales report, the daily report and the dashboard move by exactly the
\* amounts of transaction t
TotalsFollow(t) ==
  /\ \A from \in Days, to \in Days :
       LET k == IF t.created_at >= from /\ t.created_at <= to
                THEN Turn(t) ELSE 0
           old == SalesReport(txns, titems, from, to)
           new == SalesReport(txns', titems', from, to) IN
         /\ new.total_sales = old.total_sales + k * t.total_amount
         /\ new.total_transactions = old.total_transactions + k
         /\ new.total_items_sold = old.total_items_sold + k * QtySold(t)
  /\ LET k == IF t.created_at = today THEN Turn(t) ELSE 0
         old == DailySales(txns, today)
         new == DailySales(txns', today')
         dold == DashboardOverview(txns, titems, today)
         dnew == DashboardOverview(txns', titems', today') IN
       /\ new.total_sales = old.total_sales + k * t.total_amount
       /\ new.total_transactions = old.total_transactions + k
       /\ dnew.today_sales = dold.today_sales + k * t.total_amount
       /\ dnew.today_transactions = dold.today_transactions + k
       /\ dnew.today_items_sold = dold.today_items_sold + k * QtySold(t)
       /\ dnew.month_sales = dold.month_sales + Turn(t) * t.total_amount
       /\ dnew.month_transactions = dold.month_transactions + Turn(t)

\* the staff report moves by exactly the amounts of transaction t, in the
\* group of its creator and in no other
StaffFollows(t) ==
  \A from \in Days, to \in Days, staff \in Users :
    LET k == IF /\ t.created_at >= from /\ t.created_at <= to
                /\ t.created_by = staff
             THEN Turn(t) ELSE 0
        old == StaffSales(txns, titems, from, to, staff)
        new == StaffSales(txns', titems', from, to, staff) IN
      /\ new.total_sales = old.total_sales + k * t.total_amount
      /\ new.transaction_count = old.transaction_count + k
      /\ new.items_sold = old.items_sold + k * QtySold(t)

\* the part of C23 that speaks of the sales report, the daily report and
\* the dashboard
SalesReportsTrack == [][\A t \in StatusSet : TotalsFollow(t)]_vars

\* C23: for every date window a transaction adds exactly its total, a count
\* of one and its item quantities to the sales, daily and staff reports and
\* to the dashboard when it becomes COMPLETED, and takes exactly these away
\* again when it is voided
ReportsTrack ==
  [][\A t \in StatusSet : TotalsFollow(t) /\ StaffFollows(t)]_vars

\* sum over the items of t, in item order, of
\* (unit price - the product's cost price now) * quantity
LiveProfit(t) ==
  SumSeq([k \in 1..Len(ItemRows(t)) |->
            (ItemRows(t)[k].unit_price - cost[ItemRows(t)[k].product])
              * ItemRows(t)[k].quantity])

RECURSIVE SumLive(_)
SumLive(S) ==
  IF S = {} THEN 0
  ELSE LET t == CHOOSE x \in S : TRUE IN LiveProfit(t) + SumLive(S \ {t})

\* C24: profit is not a stored column; what a report shows for a
\* transaction is the sum over its items of (unit price - the product's
\* current cost price) * quantity, and the report's total is the sum of
\* these; an edit of a cost price leaves every stored row as it is and moves
\* the profit of each earlier transaction by the edit times the quantity it
\* sold of that product
ProfitIsLive ==
  /\ [](/\ \A t \in txns :
             /\ "profit" \notin DOMAIN t
             /\ Profit(titems, cost, t.id) = LiveProfit(t)
        /\ \A it \in titems : "profit" \notin DOMAIN it
        /\ \A from \in Days, to \in Days :
             TotalProfit(txns, titems, cost, from, to)
               = SumLive(CompletedIn(txns, from, to)))
  /\ [][cost' # cost =>
          /\ txns' = txns /\ titems' = titems
          /\ \A t \in txns :
               Profit(titems', cost', t.id) =
                 Profit(titems, cost, t.id)
                   - SumSet(Products,
                            [p \in Products |->
                               (cost'[p] - cost[p]) * QtyOf(t, p)])
       ]_vars

\* the only transaction stored sold product 1 at a profit, the cost price
\* of product 1 was raised afterwards to the unit price, and the
\* transaction now shows less profit than it did when it was sold
ProfitIsLiveWitness ==
  /\ nextId = 2
  /\ cost[1] = UnitCost + 1 /\ cost[2] = UnitCost
  /\ \E t \in txns :
        /\ t.status = "COMPLETED" /\ QtyOf(t, 1) > 0
        /\ Profit(titems, cost, t.id)
             < Profit(titems, [p \in Products |-> UnitCost], t.id)

OwnerOnly ==
  {"list_users", "create_user", "retrieve_user", "update_user",
   "deactivate_user", "audit_logs", "profit_loss", "staff_performance"}

\* C25: an owner-only request is let through to its handler if and only if
\* it carries the credentials of a user whose role is OWNER; sent by a STAFF
\* user it is answered 403, and a refused request changes nothing that is
\* stored
OwnerOnlyChecked ==
  [][\A w \in Workers :
       (req'[w] # req[w] /\ req'[w].op \in OwnerOnly) =>
         LET who == req'[w].user
             refused == req'[w].resp \in {"401", "403"} IN
           /\ ~refused <=> (who # 0 /\ users[who].role = "OWNER")
           /\ (who # 0 /\ users[who].role = "STAFF") => req'[w].resp = "403"
           /\ refused => UNCHANGED <<pos, accounts>>
    ]_vars

\* a STAFF user that an owner had created was refused with 403 when it tried
\* to deactivate a user
OwnerOnlyWitness ==
  /\ req[1].op = "deactivate_user" /\ req[1].resp = "403"
  /\ req[1].user = 3 /\ Len(users) = 3 /\ users[3].role = "STAFF"
  /\ \A i \in 1..Len(users) : users[i].is_active
  /\ Len(audit) = 1 /\ audit[1].action = "CREATE"

\* the transactions a step stores, as they are after the step
Stored == {t \in txns' : \A u \in txns : u.id # t.id}

\* C26: with one request at a time, the quantity a transaction takes from a
\* product, summed over all its lines of that product, is never more than the
\* product's stock when the transaction is created, and no product's stock
\* is ever below zero; a request with several lines of one product included
NoOverdraw ==
  /\ [](\A p \in Products : stock[p] >= 0)
  /\ [][\A t \in Stored : \A p \in Products :
          SumSet(ItemSet(titems', t.id),
                 [it \in ItemSet(titems', t.id) |->
                    IF it.product = p THEN it.quantity ELSE 0]) <= stock[p]
       ]_vars

\* the checkout served by worker w has stored its transaction
CheckedOut(w) ==
  /\ req[w].op = "checkout"
  /\ \/ req[w].pc \in {"clear", "deactivate"}
     \/ req[w].pc = "idle" /\ req[w].resp = "CREATED"

\* C27: whatever the interleaving of two checkout requests of one user on
\* one active cart, at most one of them stores a transaction made of that
\* cart's items (so that the cart's quantities leave the stock at most once)
CartConsumedOnce ==
  \A w \in Workers, v \in Workers :
     (w # v /\ CheckedOut(w) /\ CheckedOut(v)) => req[w].cart # req[v].cart

\* C28: whatever the interleaving of two void requests on one COMPLETED
\* transaction, the stock is given back at most once: for every transaction
\* and product there are never more RETURN movements than the transaction
\* has items of that product
VoidReturnsOnce ==
  \A t \in txns : \A p \in Products :
     Len(SelectSeq(MovesOf(movements, t, "RETURN"),
                   LAMBDA m : m.product = p))
       <= Cardinality({it \in ItemSet(titems, t.id) : it.product = p})

RECURSIVE MaxOf(_)
\* the greatest member of a non-empty set of numbers
MaxOf(S) ==
  LET x == CHOOSE y \in S : TRUE IN
  IF S = {x} THEN x
  ELSE LET m == MaxOf(S \ {x}) IN IF x > m THEN x ELSE m

\* C29: the number save() assigns is 1 + the numerically greatest sequence
\* among the day's existing numbers (1 when there is none), also when the
\* sequences have grown past the four digits of the padding, and so it is
\* the number of no existing transaction
NumberIsMaxPlusOne ==
  [][\A w \in Workers :
       (req[w].pc = "validated" /\ req'[w].pc = "numbered") =>
         LET sameDay == {t \in Visible(w) : t.transaction_number.date = today}
             seqs == {ParseInt(t.transaction_number.seq) : t \in sameDay} IN
           /\ req'[w].num.date = today
           /\ ParseInt(req'[w].num.seq) =
                 IF seqs = {} THEN 1 ELSE MaxOf(seqs) + 1
           /\ \A t \in Visible(w) : t.transaction_number # req'[w].num
    ]_vars

\* the same below the width of the padding: with at most 9999 transactions
\* on the day the number is 1 + the greatest sequence
NumberIsMaxPlusOneToWidth ==
  [][\A w \in Workers :
       (req[w].pc = "validated" /\ req'[w].pc = "numbered") =>
         LET sameDay == {t \in Visible(w) : t.transaction_number.date = today}
             seqs == {ParseInt(t.transaction_number.seq) : t \in sameDay} IN
           (\A n \in seqs : n <= 9999) =>
              /\ ParseInt(req'[w].num.seq) =
                    IF seqs = {} THEN 1 ELSE MaxOf(seqs) + 1
              /\ \A t \in Visible(w) : t.transaction_number # req'[w].num
    ]_vars

\* C30: every stored transaction has a subtotal, a total and a change of at
\* least zero and every stored item a line total of at least zero, whatever
\* request was accepted, one whose discount exceeds subtotal + tax included
MoneyNonNegative ==
  /\ \A t \in txns :
       t.subtotal >= 0 /\ t.total_amount >= 0 /\ t.change_amount >= 0
  /\ \A it \in titems : it.line_total >= 0

\* the part of it that the test of the payment secures: the change
ChangeNonNegative == \A t \in txns : t.change_amount >= 0

====
